---- MODULE Spec2Model ----
(***************************************************************************)
(* wikistats: the Wikidata enrichment pipeline                             *)
(* (src/src/wikistats/enrichment/wikidata_enrichment.py).                  *)
(*                                                                         *)
(* One Python process calls enrich(files, fetch_remote) and                *)
(* generate_label_mappings(fetch_remote) some number of times.  The module *)
(* global _CACHE and the file data/wikidata_labels.json outlive a call;    *)
(* everything else is local to one call.  The remote services (the         *)
(* page-properties lookup, wbgetentities) are the environment: every       *)
(* response is chosen nondeterministically from a small set.               *)
(*                                                                         *)
(* Python's None is the empty set and a present value x is {x}, so that an *)
(* optional string and an optional list are told apart from "absent" in    *)
(* the same way the code tells them apart ("is None", "or []", "if qid").  *)
(* A dict is a function; a dict with string keys is a record.              *)
(*                                                                         *)
(* Besides the runs of the pipeline (Spec), single functions are called    *)
(* on their own: the batch fetcher (SpecFetch), the merger (SpecMerge),    *)
(* the resolver, the classifier and enrich_article (SpecResolve), the      *)
(* derivation of the enriched paths (SpecPaths), and the generator         *)
(* stream_events of src/src/wikistats/ingestion/stream_ingestion.py        *)
(* (SpecStream), which main.py runs through ingest (SpecMain).             *)
(***************************************************************************)
EXTENDS Integers, Sequences, FiniteSets, TLC

\* ---------------------------------------------------------------- bounds
MaxQids  == 2    \* entity identifiers Q1..Qn known to the remote service
MaxRows  == 2    \* records per input file
MaxClock == 4    \* readings of the wall clock that are followed
MaxInput == 3    \* length of the qids list of a direct call of the fetcher
MaxBatch == 2    \* batch_size of a direct call of the fetcher
MaxCode  == 2    \* pieces of a wiki code
MaxName  == 2    \* pieces of a file name
MaxLines == 3    \* lines of the event stream that are followed

\* The default of get_wikidata_labels_batch's batch_size parameter, which
\* enrich and generate_label_mappings never override.
DefaultBatchSize == 50

\* The default of ingest's batch_size parameter, which main never overrides.
IngestBatchSize == 50

\* ------------------------------------------------------------ py values
None == {}
Some(x) == {x}
Get(o) == CHOOSE x \in o : TRUE

Range(s) == {s[k] : k \in 1..Len(s)}
Min(a, b) == IF a < b THEN a ELSE b

\* dict.update(b) on a: b's fields win, a's other fields stay.
DictUpdate(a, b) ==
  [f \in DOMAIN a \cup DOMAIN b |-> IF f \in DOMAIN b THEN b[f] ELSE a[f]]

\* d[k] = v on a dict.
DictSet(d, k, v) ==
  [f \in DOMAIN d \cup {k} |-> IF f = k THEN v ELSE d[f]]

EmptyDict == [k \in {} |-> None]

Qids == {"Q" \o ToString(n) : n \in 1..MaxQids}
\* The (title, wiki) pairs the records of the input files carry.
Keys == {<<"Paris", "enwiki">>, <<"Berlin", "dewiki">>}

\* An optional list of identifiers as the two extractors can return it:
\* None, or a non-empty list ("values or None").
OptLists == {None} \cup {Some(<<q>>) : q \in Qids}

\* "x or []" on an optional list.
OrEmptyList(o) == IF o = None \/ Get(o) = <<>> THEN <<>> ELSE Get(o)

\* All orders in which a set can be listed (list(set(...)) fixes none).
Orders(S) ==
  {s \in [1..Cardinality(S) -> S] : \A a, b \in 1..Cardinality(S) : s[a] = s[b] => a = b}

\* One fixed listing of a set, for list(all_qids).
RECURSIVE SetToSeq(_)
SetToSeq(S) ==
  IF S = {} THEN <<>>
  ELSE LET x == CHOOSE y \in S : TRUE IN <<x>> \o SetToSeq(S \ {x})

\* ------------------------------------------------- resolver, classifier
\* What the page-properties lookup can answer: a transport error or non-2xx
\* status (requests.RequestException), a body that is not the expected
\* structure (data.get / page.get raise), or pages with or without a
\* wikibase_item property.
LookupResponses ==
  {[status |-> "error", item |-> None], [status |-> "malformed", item |-> None]}
  \cup {[status |-> "ok", item |-> it] : it \in {None, Some("Q1")}}

\* get_wikidata_id once the request is made: [raised, value].  `raised` is
\* "none" or the class of the exception that leaves the function: the try
\* covers the request only (lines 69-76), the reading of the body does not.
get_wikidata_id(resp) ==
  IF resp.status = "error" THEN [raised |-> "none", value |-> None]
  ELSE IF resp.status = "malformed" THEN [raised |-> "Exception", value |-> None]
  ELSE [raised |-> "none", value |-> resp.item]

\* A wiki code is a string; it is followed as the sequence of the pieces the
\* derivation of the host can tell apart: language codes, the suffix "wiki"
\* and the project names.  No piece ends with another, so endswith on the
\* string is a test of the last piece.
Languages == {"en", "de"}

\* The list of lines 34-44, in its order.
projects ==
  <<"wikipedia", "wikidata", "commons", "wikivoyage", "wiktionary", "wikisource",
    "wikibooks", "wikiquote", "wikinews">>

Tokens == Languages \cup {"wiki"} \cup Range(projects)

\* The wiki codes of up to MaxCode pieces, the empty string included.
WikiCodes == UNION {[1..n -> Tokens] : n \in 0..MaxCode}

\* s.endswith(tok) and s[:-len(tok)].
EndsWith(s, tok) == Len(s) > 0 /\ s[Len(s)] = tok
DropLast(s) == SubSeq(s, 1, Len(s) - 1)

\* A prefix that keeps the trailing "wiki".
Prefix_unstripped(wiki) == wiki

\* Line 32.
Prefix(wiki) == IF EndsWith(wiki, "wiki") THEN DropLast(wiki) ELSE wiki

\* A host is the sequence of its dot-separated labels, each label a string.
Label(tok) == <<tok>>

\* Lines 50-57: the host of project proj for the language part lang.
ProjectHost(lang, proj) ==
  IF proj = "wikidata"
    THEN <<Label("www"), Label("wikidata"), Label("org")>>
  ELSE IF proj = "commons"
    THEN IF lang # <<>>
           THEN <<lang, Label("commons"), Label("wikimedia"), Label("org")>>
           ELSE <<Label("commons"), Label("wikimedia"), Label("org")>>
  ELSE IF proj = "wikipedia"
    THEN IF lang # <<>>
           THEN <<lang, Label("wikipedia"), Label("org")>>
           ELSE <<Label("www"), Label("wikipedia"), Label("org")>>
  ELSE IF lang # <<>> THEN <<lang, Label(proj), Label("org")>>
       ELSE <<Label(proj), Label("org")>>

\* Lines 46-62: the first project of the list the prefix ends with, or the
\* whole prefix as a language of Wikipedia.
Host(wiki) ==
  LET prefix == Prefix(wiki)
      matches == {j \in 1..Len(projects) : EndsWith(prefix, projects[j])}
  IN IF matches # {}
       THEN ProjectHost(DropLast(prefix),
                        projects[CHOOSE j \in matches : \A k \in matches : j <= k])
       ELSE <<prefix, Label("wikipedia"), Label("org")>>

\* get_wikidata_id(title, wiki) for the response the environment would
\* give: [raised, value, calls, host].  wiki.endswith (line 32) raises for a
\* null wiki and quote(title) (line 66) for a null title, both before the
\* request and outside the try.
get_wikidata_id_of(title, wiki, resp) ==
  IF wiki = None
    THEN [raised |-> "Exception", value |-> None, calls |-> 0, host |-> <<>>]
  ELSE IF title = None
    THEN [raised |-> "Exception", value |-> None, calls |-> 0, host |-> Host(Get(wiki))]
  ELSE [raised |-> get_wikidata_id(resp).raised, value |-> get_wikidata_id(resp).value,
        calls |-> 1, host |-> Host(Get(wiki))]

\* What wbgetentities (props=claims) can answer for one identifier.
ClassifyResponses ==
  {[status |-> "error", instance_of |-> None, subclass_of |-> None],
   [status |-> "malformed", instance_of |-> None, subclass_of |-> None]}
  \cup {[status |-> "ok", instance_of |-> a, subclass_of |-> None] : a \in OptLists}
  \cup {[status |-> "ok", instance_of |-> None, subclass_of |-> b] : b \in OptLists}

NoClassification == [instance_of |-> None, subclass_of |-> None]

\* A classifier without the test of line 93.
get_wikidata_classification_unguarded(qid, resp) ==
  IF resp.status = "error"
    THEN [raised |-> "RequestException", value |-> NoClassification, calls |-> 1]
  ELSE IF resp.status = "malformed"
    THEN [raised |-> "Exception", value |-> NoClassification, calls |-> 1]
  ELSE [raised |-> "none", calls |-> 1,
        value |-> [instance_of |-> resp.instance_of, subclass_of |-> resp.subclass_of]]

\* get_wikidata_classification: [raised, value, calls].  No request is
\* made for a missing identifier; raise_for_status and a malformed body
\* raise out of the function.
get_wikidata_classification(qid, resp) ==
  IF qid = None
    THEN [raised |-> "none", value |-> NoClassification, calls |-> 0]
  ELSE IF resp.status = "error"
    THEN [raised |-> "RequestException", value |-> NoClassification, calls |-> 1]
  ELSE IF resp.status = "malformed"
    THEN [raised |-> "Exception", value |-> NoClassification, calls |-> 1]
  ELSE [raised |-> "none", calls |-> 1,
        value |-> [instance_of |-> resp.instance_of, subclass_of |-> resp.subclass_of]]

\* The safe placeholder result of one article.
Placeholder(key) ==
  [title |-> key[1], wiki |-> key[2], wikidata_id |-> None,
   classification |-> NoClassification]

\* enrich_article: [raised, result, calls] for the two responses the
\* environment would give.
enrich_article(key, remote, lookup, claims) ==
  IF ~remote THEN [raised |-> "none", result |-> Placeholder(key), calls |-> 0]
  ELSE LET id == get_wikidata_id(lookup) IN
       IF id.raised # "none"
         THEN [raised |-> id.raised, result |-> Placeholder(key), calls |-> 1]
       ELSE LET c == get_wikidata_classification(id.value, claims) IN
            [raised |-> c.raised, calls |-> 1 + c.calls,
             result |-> [title |-> key[1], wiki |-> key[2],
                         wikidata_id |-> id.value, classification |-> c.value]]

\* A try that handles requests.RequestException only.
Caught_request_only(exc) == exc = "RequestException"

\* The exception classes the try of enrich_article_cached handles
\* (lines 249 and 257).
Caught(exc) == exc \in {"RequestException", "Exception"}

\* The value bound to `result` on a cache miss: each except clause replaces
\* the exception by the placeholder.
GuardedResult(key, r) == IF r.raised # "none" THEN Placeholder(key) ELSE r.result

\* A cache that keeps resolved results only.
CacheAfterMiss_resolved_only(cache, key, r) ==
  IF r.raised # "none" \/ r.result.wikidata_id = None THEN cache
  ELSE DictSet(cache, key, r.result)

\* The cache after a miss on `key` computed `r` (line 266): every outcome
\* that reaches the line is stored.
CacheAfterMiss(cache, key, r) == DictSet(cache, key, GuardedResult(key, r))

\* enrich_article_cached: [result, cache, invoked, calls, raised, exc], where
\* exc is what enrich_article raised and raised is what leaves the function.
enrich_article_cached(cache, key, remote, lookup, claims) ==
  IF key \in DOMAIN cache
    THEN [result |-> cache[key], cache |-> cache, invoked |-> FALSE,
          calls |-> 0, raised |-> "none", exc |-> "none"]
  ELSE LET r == enrich_article(key, remote, lookup, claims) IN
       IF r.raised # "none" /\ ~Caught(r.raised)
         THEN [result |-> Placeholder(key), cache |-> cache, invoked |-> TRUE,
               calls |-> r.calls, raised |-> r.raised, exc |-> r.raised]
       ELSE [result |-> GuardedResult(key, r),
             cache |-> CacheAfterMiss(cache, key, r),
             invoked |-> TRUE, calls |-> r.calls, raised |-> "none", exc |-> r.raised]

\* ------------------------------------------------------ detail fetcher
\* The bodies wbgetentities can hold for an entity: with or without a label
\* and a description in the requested language, with or without claims.
EntityBodies ==
  {[label |-> None, description |-> None, instance_of |-> None, subclass_of |-> None],
   [label |-> Some("label"), description |-> Some("description"),
    instance_of |-> Some(<<"Q1">>), subclass_of |-> None]}

\* The entry built from a response entity (lines 168-197).
Detail(qid, body, t) ==
  [label |-> IF body.label # None THEN Get(body.label) ELSE qid,
   description |-> body.description,
   instance_of |-> body.instance_of,
   subclass_of |-> body.subclass_of,
   last_updated |-> t]

\* The minimal entry of a failed batch (lines 201-208).
Fallback(qid, t) ==
  [label |-> qid, description |-> None, instance_of |-> None,
   subclass_of |-> None, last_updated |-> t]

\* The entities dict after a response carrying `ids` with body `body`.
EntitiesAfterOk(ents, ids, body, t) ==
  [q \in DOMAIN ents \cup ids |-> IF q \in ids THEN Detail(q, body, t) ELSE ents[q]]

\* A failure handler that starts the dict over with the fallback entries.
EntitiesAfterFailure_reset(ents, batch, t) ==
  [q \in Range(batch) |-> Fallback(q, t)]

\* The entities dict after the request for `batch` failed.
EntitiesAfterFailure(ents, batch, t) ==
  [q \in DOMAIN ents \cup Range(batch) |->
     IF q \in Range(batch) THEN Fallback(q, t) ELSE ents[q]]

\* A slice that runs one element into the next batch.
Batch_one_too_many(uq, i, size) == SubSeq(uq, i, Min(i + size, Len(uq)))

\* unique_qids[i:i + batch_size], with i counted from 1.
Batch(uq, i, size) == SubSeq(uq, i, Min(i + size - 1, Len(uq)))

\* --------------------------------------------------------------- merger
\* A merge that stamps every merged detail with the current timestamp.
merge_entity_data_restamp(existing, new, ts) ==
  [q \in DOMAIN existing \cup DOMAIN new |->
     IF q \notin DOMAIN new THEN existing[q]
     ELSE IF q \in DOMAIN existing
       THEN DictSet(DictUpdate(existing[q], new[q]), "first_seen_ingestion", ts)
     ELSE DictSet(new[q], "first_seen_ingestion", ts)]

\* A merge that returns the new details only.
merge_entity_data_new_only(existing, new, ts) ==
  [q \in DOMAIN new |->
     IF q \in DOMAIN existing THEN DictUpdate(existing[q], new[q])
     ELSE DictSet(new[q], "first_seen_ingestion", ts)]

\* The dict merge_entity_data returns.
merge_entity_data(existing, new, ts) ==
  [q \in DOMAIN existing \cup DOMAIN new |->
     IF q \notin DOMAIN new THEN existing[q]
     ELSE IF q \in DOMAIN existing THEN DictUpdate(existing[q], new[q])
     ELSE DictSet(new[q], "first_seen_ingestion", ts)]

\* new_entities as the call leaves it: the record of a new key is the very
\* object that was stamped (line 296) and inserted.
NewEntitiesAfterMerge(existing, new, ts) ==
  [q \in DOMAIN new |->
     IF q \in DOMAIN existing THEN new[q]
     ELSE DictSet(new[q], "first_seen_ingestion", ts)]

\* ---------------------------------------------------------------- state
VARIABLES
  store,                \* data/wikidata_labels.json: identifier -> detail
  CACHE,                \* the module global _CACHE: (title, wiki) -> result
  enriched_dir,         \* data/enriched: [files, qids] of the files written
  now,                  \* the wall clock datetime.now() reads
  op,                   \* the call in progress
  pc,                   \* where it stands
  fetch_remote,         \* its fetch_remote argument
  all_qids,             \* its running set of identifiers
  ingestion_timestamp,  \* its ingestion timestamp
  enriched_rows,        \* the rows built for the file being read
  invocations,          \* (title, wiki) -> calls of enrich_article, this call
  netCalls,             \* HTTP requests made during this call
  qids,                 \* get_wikidata_labels_batch: the qids argument
  batch_size,           \*   the batch_size argument
  unique_qids,          \*   unique_qids
  i,                    \*   the loop index, counted from 1
  entities,             \*   entities
  history,              \*   the batches requested so far and how each ended
  new_entities,         \* the dict handed to merge_entity_data
  passed,               \* that dict as it was when the fetcher returned it
  merged,               \* the dict merge_entity_data returned
  outcome,              \* how the last call ended
  lastExc,              \* what enrich_article raised for the last record
  direct,               \* a direct call of the resolver or the classifier
  paths,                \* the input paths of a run and the files it wrote,
                        \*   or the main program and what it handed to enrich
  stream                \* a consumer of stream_events and its generator

persistent == <<store, CACHE, enriched_dir, now>>
fetcher == <<qids, batch_size, unique_qids, i, entities, history>>
locals == <<fetch_remote, all_qids, ingestion_timestamp, enriched_rows>>
vars == <<store, CACHE, enriched_dir, now, op, pc, fetch_remote, all_qids,
          ingestion_timestamp, enriched_rows, invocations, netCalls,
          qids, batch_size, unique_qids, i, entities, history, new_entities, passed,
          merged, outcome, lastExc, direct, paths, stream>>
aux == <<direct, paths, stream>>

\* The value of a variable the calls of a specification do not use.
Unused == [fn |-> "none"]
AuxUnused == direct = Unused /\ paths = Unused /\ stream = Unused

NoInvocations == [k \in Keys |-> 0]

\* datetime.now(): the clock is read at microsecond resolution, and two
\* readings are at least an HTTP exchange or a file apart, so each reading
\* is later than the one before.  Readings are followed up to MaxClock.
Clock == {t \in {now + 1} : t <= MaxClock}

\* The readings one call of enrich or generate_label_mappings makes: its
\* ingestion timestamp and the stamp of its one batch (at most
\* DefaultBatchSize identifiers exist).
ReadingsPerRun == 2

\* The locals of a call that is not running.
Idle ==
  /\ op = "none" /\ pc = "idle"
  /\ fetch_remote = FALSE /\ all_qids = {} /\ ingestion_timestamp = 0
  /\ enriched_rows = <<>>
  /\ qids = <<>> /\ batch_size = 0 /\ unique_qids = <<>> /\ i = 0
  /\ entities = EmptyDict /\ history = <<>>
  /\ new_entities = EmptyDict /\ passed = EmptyDict /\ merged = EmptyDict

\* A fresh process on a fresh checkout.
Init ==
  /\ store = EmptyDict /\ CACHE = EmptyDict
  /\ enriched_dir = [files |-> FALSE, qids |-> {}]
  /\ now = 0
  /\ invocations = NoInvocations /\ netCalls = 0 /\ outcome = "none"
  /\ lastExc = "none"
  /\ Idle
  /\ AuxUnused

\* The call returns or raises: its locals are gone.
Leave(how) ==
  /\ op' = "none" /\ pc' = "idle" /\ outcome' = how /\ lastExc' = "none"
  /\ invocations' = NoInvocations /\ netCalls' = 0
  /\ fetch_remote' = FALSE /\ all_qids' = {} /\ ingestion_timestamp' = 0
  /\ enriched_rows' = <<>>
  /\ qids' = <<>> /\ batch_size' = 0 /\ unique_qids' = <<>> /\ i' = 0
  /\ entities' = EmptyDict /\ history' = <<>>
  /\ new_entities' = EmptyDict /\ passed' = EmptyDict /\ merged' = EmptyDict

\* ------------------------------------------------------------- enrich
\* enrich(files, fetch_remote) is called (lines 385-388).
StartEnrich ==
  /\ UNCHANGED aux
  /\ pc = "idle" /\ now + ReadingsPerRun <= MaxClock
  /\ \E remote \in BOOLEAN, t \in Clock :
       /\ fetch_remote' = remote
       /\ now' = t /\ ingestion_timestamp' = t
  /\ op' = "enrich" /\ pc' = "files" /\ outcome' = "running"
  /\ all_qids' = {} /\ enriched_rows' = <<>>
  /\ invocations' = NoInvocations /\ netCalls' = 0 /\ lastExc' = "none"
  /\ UNCHANGED <<store, CACHE, enriched_dir, fetcher, new_entities, passed, merged>>

\* The next input file is read (lines 390-395).
ReadFile ==
  /\ UNCHANGED aux
  /\ op = "enrich" /\ pc = "files"
  /\ pc' = "rows" /\ enriched_rows' = <<>>
  /\ UNCHANGED <<persistent, op, fetch_remote, all_qids, ingestion_timestamp,
                 invocations, netCalls, fetcher, new_entities, passed, merged, outcome, lastExc>>

\* The row appended for one record (lines 404-415).
EnrichedRow(key, wd) ==
  [title |-> key[1], wiki |-> key[2],
   wikidata_id |-> wd.wikidata_id,
   instance_of |-> OrEmptyList(wd.classification.instance_of),
   subclass_of |-> OrEmptyList(wd.classification.subclass_of)]

\* The responses that decide a record: none is asked for on a cache hit or
\* without fetch_remote, and the claims are asked for only after an
\* identifier was found.
NoLookup == [status |-> "error", item |-> None]
NoClaims == [status |-> "error", instance_of |-> None, subclass_of |-> None]
Exchanges(key) ==
  IF key \in DOMAIN CACHE \/ ~fetch_remote THEN {<<NoLookup, NoClaims>>}
  ELSE {<<l, NoClaims>> : l \in {x \in LookupResponses : get_wikidata_id(x).value = None}}
       \cup {<<l, c>> : l \in {x \in LookupResponses : get_wikidata_id(x).value # None},
                        c \in ClassifyResponses}

\* pq.read_table (line 392) raises: the file cannot be read, and nothing in
\* enrich handles it.
ReadFails ==
  /\ UNCHANGED aux
  /\ op = "enrich" /\ pc = "files"
  /\ Leave("file_error")
  /\ UNCHANGED persistent

\* One record of the file is enriched (lines 397-415).  An exception that
\* leaves enrich_article_cached leaves enrich.
Row ==
  /\ UNCHANGED aux
  /\ op = "enrich" /\ pc = "rows" /\ Len(enriched_rows) < MaxRows
  /\ \E key \in Keys :
     \E x \in Exchanges(key) :
       LET r == enrich_article_cached(CACHE, key, fetch_remote, x[1], x[2])
           row == EnrichedRow(key, r.result)
       IN /\ CACHE' = r.cache
          /\ IF r.raised # "none"
               THEN Leave("record_error")
               ELSE /\ invocations' = IF r.invoked
                                        THEN [invocations EXCEPT ![key] = @ + 1]
                                        ELSE invocations
                    /\ netCalls' = netCalls + r.calls
                    /\ all_qids' = all_qids \cup Range(row.instance_of)
                                            \cup Range(row.subclass_of)
                    /\ enriched_rows' = Append(enriched_rows, row)
                    /\ lastExc' = r.exc
                    /\ UNCHANGED <<op, pc, fetch_remote, ingestion_timestamp,
                                   fetcher, new_entities, passed, merged, outcome>>
  /\ UNCHANGED <<store, enriched_dir, now>>

\* The identifiers the rows of a file refer to.
RowQids(rows) ==
  UNION {Range(rows[k].instance_of) \cup Range(rows[k].subclass_of) : k \in 1..Len(rows)}

\* An enrich that persists placeholders for the identifiers seen so far
\* with every file it writes.
WriteFile_persisting ==
  /\ UNCHANGED aux
  /\ op = "enrich" /\ pc = "rows"
  /\ enriched_dir' = [files |-> TRUE, qids |-> enriched_dir.qids \cup RowQids(enriched_rows)]
  /\ store' = merge_entity_data(store, [q \in all_qids |-> Fallback(q, ingestion_timestamp)],
                                ingestion_timestamp)
  /\ pc' = "files" /\ enriched_rows' = <<>> /\ lastExc' = "none"
  /\ UNCHANGED <<CACHE, now, op, fetch_remote, all_qids, ingestion_timestamp,
                 invocations, netCalls, fetcher, new_entities, passed, merged, outcome>>

\* The enriched file of the input file is written (lines 417-428).
WriteFile ==
  /\ UNCHANGED aux
  /\ op = "enrich" /\ pc = "rows"
  /\ enriched_dir' = [files |-> TRUE, qids |-> enriched_dir.qids \cup RowQids(enriched_rows)]
  /\ pc' = "files" /\ enriched_rows' = <<>> /\ lastExc' = "none"
  /\ UNCHANGED <<store, CACHE, now, op, fetch_remote, all_qids, ingestion_timestamp,
                 invocations, netCalls, fetcher, new_entities, passed, merged, outcome>>

\* The fetch and the store write without the test of line 431.
AfterFiles_unguarded ==
  /\ UNCHANGED aux
  /\ op = "enrich" /\ pc = "files"
  /\ qids' = [k \in 1..Cardinality(all_qids) |-> Some(SetToSeq(all_qids)[k])]
  /\ batch_size' = DefaultBatchSize
  /\ pc' = "call"
  /\ UNCHANGED <<op, locals, unique_qids, i, entities, history, new_entities,
                 passed, merged, outcome, lastExc, invocations, netCalls>>
  /\ UNCHANGED persistent

\* mkdir or pq.write_table (lines 423-426) raises: the enriched file of
\* this input is not written, those written before stay.
WriteFails ==
  /\ UNCHANGED aux
  /\ op = "enrich" /\ pc = "rows"
  /\ Leave("file_error")
  /\ UNCHANGED persistent

\* All files are processed (lines 430-433, 447).
AfterFiles ==
  /\ UNCHANGED aux
  /\ op = "enrich" /\ pc = "files"
  /\ IF fetch_remote /\ all_qids # {}
       THEN /\ qids' = [k \in 1..Cardinality(all_qids) |-> Some(SetToSeq(all_qids)[k])]
            /\ batch_size' = DefaultBatchSize
            /\ pc' = "call"
            /\ UNCHANGED <<op, locals, unique_qids, i, entities, history, new_entities,
                           passed, merged,
                           outcome, lastExc>>
            /\ UNCHANGED <<invocations, netCalls>>
       ELSE Leave("complete")
  /\ UNCHANGED persistent

\* -------------------------------------------- get_wikidata_labels_batch
\* Lines 142-146: nulls and duplicates are dropped; a set has no order.
\* (An empty qids returns {} at line 143, which is what the loop over an
\* empty unique_qids returns too.)
FetchStart ==
  /\ UNCHANGED aux
  /\ pc = "call"
  /\ \E uq \in Orders({Get(q) : q \in {x \in Range(qids) : x # None}}) :
       unique_qids' = uq
  /\ i' = 1 /\ entities' = EmptyDict /\ history' = <<>> /\ pc' = "fetch"
  /\ UNCHANGED <<persistent, op, locals, invocations, netCalls, qids, batch_size,
                 new_entities, passed, merged, outcome, lastExc>>

\* The request of one batch succeeded and its body is well-formed: an entry
\* for every entity of the response (lines 162-197).
BatchOk ==
  \E ids \in SUBSET Range(Batch(unique_qids, i, batch_size)),
     body \in EntityBodies, t \in Clock :
    /\ entities' = EntitiesAfterOk(entities, ids, body, t)
    /\ history' = Append(history, [batch |-> Batch(unique_qids, i, batch_size),
                                   status |-> "ok", answered |-> ids,
                                   body |-> body, at |-> t])
    /\ now' = t /\ netCalls' = netCalls + 1
    /\ i' = i + batch_size
    /\ UNCHANGED <<op, pc, locals, qids, batch_size, unique_qids, new_entities, passed, merged,
                   outcome, lastExc>>

\* The request raised requests.RequestException: the fallback entry for
\* every identifier of the batch (lines 198-208).
BatchFailed ==
  \E t \in Clock :
    /\ entities' = EntitiesAfterFailure(entities, Batch(unique_qids, i, batch_size), t)
    /\ history' = Append(history, [batch |-> Batch(unique_qids, i, batch_size),
                                   status |-> "failed", answered |-> {},
                                   body |-> CHOOSE b \in EntityBodies : TRUE, at |-> t])
    /\ now' = t /\ netCalls' = netCalls + 1
    /\ i' = i + batch_size
    /\ UNCHANGED <<op, pc, locals, qids, batch_size, unique_qids, new_entities, passed, merged,
                   outcome, lastExc>>

\* The body is not shaped as lines 167-189 read it: the exception is no
\* RequestException and leaves the function and its caller.
BatchMalformed ==
  /\ Leave("batch_error")
  /\ UNCHANGED now

\* One turn of the loop of line 149.
FetchBatch ==
  /\ UNCHANGED aux
  /\ pc = "fetch" /\ i <= Len(unique_qids) /\ now < MaxClock
  /\ \/ BatchOk
     \/ BatchFailed
     \/ BatchMalformed
  /\ UNCHANGED <<store, CACHE, enriched_dir, invocations>>

\* Line 210, and the caller's next lines: generate_label_mappings reads the
\* clock for its ingestion timestamp after the fetch (line 366).
FetchReturn ==
  /\ UNCHANGED aux
  /\ pc = "fetch" /\ i > Len(unique_qids)
  /\ new_entities' = entities /\ passed' = entities
  /\ pc' = IF op = "fetch" THEN "returned" ELSE "merge"
  /\ \E t \in IF op = "generate" THEN Clock ELSE {now} :
       /\ now' = t
       /\ ingestion_timestamp' = IF op = "generate" THEN t ELSE ingestion_timestamp
  /\ UNCHANGED <<store, CACHE, enriched_dir, op, fetch_remote, all_qids,
                 enriched_rows, invocations, netCalls, fetcher, merged, outcome, lastExc>>

\* ---------------------------------------------------- merge and persist
\* merge_entity_data(labels_path, new_entities, ingestion_timestamp)
\* (lines 367 and 440).
Merge ==
  /\ UNCHANGED aux
  /\ pc = "merge"
  /\ merged' = merge_entity_data(store, new_entities, ingestion_timestamp)
  /\ new_entities' = NewEntitiesAfterMerge(store, new_entities, ingestion_timestamp)
  /\ pc' = "write"
  /\ UNCHANGED <<persistent, op, locals, invocations, netCalls, fetcher, passed, outcome,
                 lastExc>>

\* json.dump(merged, f) (lines 369-370 and 442-443).
WriteStore ==
  /\ UNCHANGED aux
  /\ pc = "write"
  /\ store' = merged
  /\ Leave("complete")
  /\ UNCHANGED <<CACHE, enriched_dir, now>>

\* ------------------------------------------------ generate_label_mappings
\* Lines 321-359: without enriched files the call returns; without
\* fetch_remote it only reads them.
StartGenerate ==
  /\ UNCHANGED aux
  /\ pc = "idle" /\ now + ReadingsPerRun <= MaxClock
  /\ \E remote \in BOOLEAN :
       IF enriched_dir.files /\ remote
         THEN /\ op' = "generate" /\ pc' = "call" /\ outcome' = "running"
              /\ fetch_remote' = remote
              /\ all_qids' = enriched_dir.qids
              /\ qids' = [k \in 1..Cardinality(enriched_dir.qids) |->
                            Some(SetToSeq(enriched_dir.qids)[k])]
              /\ batch_size' = DefaultBatchSize
              /\ UNCHANGED <<ingestion_timestamp, enriched_rows, unique_qids, i,
                             entities, history, new_entities, passed, merged, lastExc,
                             invocations, netCalls>>
         ELSE Leave("complete")
  /\ UNCHANGED <<store, CACHE, enriched_dir, now>>

\* The process ends and a new one imports the module: _CACHE is empty
\* again, the files stay.
NewProcess ==
  /\ UNCHANGED aux
  /\ pc = "idle" /\ CACHE # EmptyDict
  /\ CACHE' = EmptyDict
  /\ UNCHANGED <<store, enriched_dir, now, op, pc, locals, invocations, netCalls,
                 fetcher, new_entities, passed, merged, outcome, lastExc>>

Next ==
  \/ StartEnrich
  \/ ReadFile
  \/ ReadFails
  \/ Row
  \/ WriteFile
  \/ WriteFails
  \/ AfterFiles
  \/ FetchStart
  \/ FetchBatch
  \/ FetchReturn
  \/ Merge
  \/ WriteStore
  \/ StartGenerate
  \/ NewProcess

Spec == Init /\ [][Next]_vars

\* ------------------------------------- direct calls of the pure functions
\* The qids lists of a direct call of get_wikidata_labels_batch: nulls and
\* duplicates allowed.
QidLists ==
  UNION {[1..n -> {None} \cup {Some(q) : q \in Qids}] : n \in 0..MaxInput}

\* get_wikidata_labels_batch(qids, batch_size = b) called on its own.
InitFetch ==
  /\ store = EmptyDict /\ CACHE = EmptyDict
  /\ enriched_dir = [files |-> FALSE, qids |-> {}]
  /\ now = 0
  /\ invocations = NoInvocations /\ netCalls = 0 /\ outcome = "running"
  /\ lastExc = "none"
  /\ op = "fetch" /\ pc = "call"
  /\ fetch_remote = FALSE /\ all_qids = {} /\ ingestion_timestamp = 0
  /\ enriched_rows = <<>>
  /\ qids \in QidLists /\ batch_size \in 1..MaxBatch
  /\ unique_qids = <<>> /\ i = 0 /\ entities = EmptyDict /\ history = <<>>
  /\ new_entities = EmptyDict /\ passed = EmptyDict /\ merged = EmptyDict
  /\ AuxUnused

NextFetch ==
  \/ FetchStart
  \/ FetchBatch
  \/ FetchReturn

SpecFetch == InitFetch /\ [][NextFetch]_vars

\* The details a store file can hold for q, and the details a caller can
\* pass for q: a caller's detail may or may not carry first_seen_ingestion.
StoredDetails(q) ==
  {DictSet(Detail(q, b, 1), "first_seen_ingestion", f) : b \in EntityBodies, f \in {1, 2}}
PassedDetails(q) ==
  {Detail(q, b, 2) : b \in EntityBodies}
  \cup {DictSet(Detail(q, b, 2), "first_seen_ingestion", f) : b \in EntityBodies, f \in {1, 2}}

\* The store files and the new_entities arguments over some of the
\* identifiers.
StoredDicts ==
  UNION {{d \in [S -> UNION {StoredDetails(q) : q \in S}] :
            \A q \in S : d[q] \in StoredDetails(q)} : S \in SUBSET Qids}
PassedDicts ==
  UNION {{d \in [S -> UNION {PassedDetails(q) : q \in S}] :
            \A q \in S : d[q] \in PassedDetails(q)} : S \in SUBSET Qids}

\* merge_entity_data(existing_path, new_entities, 3) called on its own.
InitMerge ==
  /\ store \in StoredDicts /\ CACHE = EmptyDict
  /\ enriched_dir = [files |-> FALSE, qids |-> {}]
  /\ now = 2
  /\ invocations = NoInvocations /\ netCalls = 0 /\ outcome = "running"
  /\ lastExc = "none"
  /\ op = "merge" /\ pc = "merge"
  /\ fetch_remote = FALSE /\ all_qids = {} /\ ingestion_timestamp = 3
  /\ enriched_rows = <<>>
  /\ qids = <<>> /\ batch_size = 0
  /\ unique_qids = <<>> /\ i = 0 /\ entities = EmptyDict /\ history = <<>>
  /\ new_entities \in PassedDicts /\ passed = new_entities
  /\ merged = EmptyDict
  /\ AuxUnused

NextMerge == Merge

SpecMerge == InitMerge /\ [][NextMerge]_vars

\* The enrichment variables of a specification that calls one function.
Quiet ==
  /\ store = EmptyDict /\ CACHE = EmptyDict
  /\ enriched_dir = [files |-> FALSE, qids |-> {}]
  /\ now = 0
  /\ invocations = NoInvocations /\ netCalls = 0 /\ outcome = "none"
  /\ lastExc = "none"
  /\ Idle

\* A direct call of get_wikidata_id(title, wiki),
\* get_wikidata_classification(qid) or enrich_article(*key), before it ran:
\* its arguments and the responses the environment would give.
DirectCall(fn, title, wiki, key, qid, lookup, claims) ==
  [fn |-> fn, title |-> title, wiki |-> wiki, key |-> key, qid |-> qid, lookup |-> lookup,
   claims |-> claims, done |-> FALSE, raised |-> "none", value |-> None,
   calls |-> 0, host |-> <<>>]

Titles == {None, Some("Paris")}
Wikis == {None} \cup {Some(w) : w \in WikiCodes}

InitResolve ==
  /\ Quiet /\ paths = Unused /\ stream = Unused
  /\ direct \in
       {DirectCall("get_wikidata_id", t, w, <<>>, None, l, NoClaims) :
          t \in Titles, w \in Wikis, l \in LookupResponses}
       \cup {DirectCall("get_wikidata_classification", None, None, <<>>, q, NoLookup, c) :
                q \in {None, Some("Q1")}, c \in ClassifyResponses}
       \cup {DirectCall("enrich_article", None, None, k, None, l, c) :
                k \in Keys, l \in LookupResponses, c \in ClassifyResponses}

\* The call returns or raises.
Returned(r, host) ==
  [direct EXCEPT !.done = TRUE, !.raised = r.raised, !.calls = r.calls,
                 !.value = r.value, !.host = host]

CallResolver ==
  /\ direct.fn = "get_wikidata_id" /\ ~direct.done
  /\ LET r == get_wikidata_id_of(direct.title, direct.wiki, direct.lookup)
     IN direct' = Returned(r, r.host)
  /\ UNCHANGED <<persistent, op, pc, locals, invocations, netCalls, fetcher, new_entities,
                 passed, merged, outcome, lastExc, paths, stream>>

CallClassifier ==
  /\ direct.fn = "get_wikidata_classification" /\ ~direct.done
  /\ direct' = Returned(get_wikidata_classification(direct.qid, direct.claims), <<>>)
  /\ UNCHANGED <<persistent, op, pc, locals, invocations, netCalls, fetcher, new_entities,
                 passed, merged, outcome, lastExc, paths, stream>>

CallEnrichArticle ==
  /\ direct.fn = "enrich_article" /\ ~direct.done
  /\ LET r == enrich_article(direct.key, TRUE,
                             direct.lookup, direct.claims)
     IN direct' = Returned([raised |-> r.raised, calls |-> r.calls, value |-> r.result],
                           <<>>)
  /\ UNCHANGED <<persistent, op, pc, locals, invocations, netCalls, fetcher, new_entities,
                 passed, merged, outcome, lastExc, paths, stream>>

NextResolve ==
  \/ CallResolver
  \/ CallClassifier
  \/ CallEnrichArticle

SpecResolve == InitResolve /\ [][NextResolve]_vars

\* ------------------------------------------------- enriched file paths
\* Every variable of the enrichment calls.
enrichment ==
  <<persistent, op, pc, locals, invocations, netCalls, fetcher, new_entities, passed,
    merged, outcome, lastExc>>

\* A file name is a string, followed as the sequence of the pieces
\* str.replace can tell apart: the extension ".parquet", the marker
\* "_enriched" and any other text.
NamePieces == {"a", ".parquet", "_enriched"}
Names == UNION {[1..n -> NamePieces] : n \in 1..MaxName}

\* A path: the directory of the file, that directory's parent, the name.
Dirs == {"raw", "other", "enriched"}
Paths == [grand : {"data"}, dir : Dirs, name : Names]

\* name.replace(".parquet", "_enriched.parquet"): every occurrence.
RECURSIVE Replace(_)
Replace(name) ==
  IF name = <<>> THEN <<>>
  ELSE (IF Head(name) = ".parquet" THEN <<"_enriched", ".parquet">> ELSE <<Head(name)>>)
       \o Replace(Tail(name))

\* An enriched file written next to its input.
enriched_path_in_place(file_path) ==
  [grand |-> file_path.grand, dir |-> file_path.dir, name |-> Replace(file_path.name)]

\* Lines 422-424: file_path.parent.parent / "enriched" / the new name.
enriched_path(file_path) ==
  [grand |-> file_path.grand, dir |-> "enriched", name |-> Replace(file_path.name)]

\* The files argument: up to two distinct paths.
FileLists ==
  {<<>>} \cup {<<f>> : f \in Paths}
         \cup {fg \in Paths \X Paths : fg[1] # fg[2]}

InitPaths ==
  /\ Quiet /\ direct = Unused /\ stream = Unused
  /\ paths \in {[fn |-> "enrich", files |-> fs, k |-> 1, outs |-> <<>>, written |-> {}] :
                  fs \in FileLists}

\* One turn of the loop of line 390: the enriched file of files[k] is
\* written (line 426).
WriteEnriched ==
  /\ paths.k <= Len(paths.files)
  /\ paths' = [paths EXCEPT !.k = @ + 1,
                            !.outs = Append(@, enriched_path(paths.files[paths.k])),
                            !.written = @ \cup {enriched_path(paths.files[paths.k])}]
  /\ UNCHANGED <<enrichment, direct, stream>>

NextPaths == WriteEnriched

SpecPaths == InitPaths /\ [][NextPaths]_vars

\* ------------------------------------------------------- stream_events
\* What a line of the stream can be: empty, SSE metadata (event:, id:), a
\* data line with a JSON object, a data line json.loads rejects, a data
\* line whose JSON is not an object, or any other text.
LineKinds == {"empty", "meta", "data", "bad", "scalar", "other"}

\* Lines 64-66: the loop is over; what is left is yielded.
Finish(st) ==
  [st EXCEPT !.pc = "done",
             !.batches = IF st.events # <<>> THEN Append(@, st.events) ELSE @]

\* Lines 60-62.
YieldIfFull(st) ==
  IF Len(st.events) >= st.batch_size
    THEN [st EXCEPT !.batches = Append(@, st.events), !.events = <<>>]
    ELSE st

\* Lines 34-62 for the next line of the stream, the event of a data line
\* being named by the number of its line.  `sent` are the events the
\* stream delivered, `parsed` those json.loads returned and line 55
\* collected.  For JSON that is not an object, event.get (line 54) raises
\* AttributeError, which the except of line 56 does not handle: the
\* generator ends with the exception.
Turn(st, kind) ==
  LET n == st.lines + 1
      read == [st EXCEPT !.lines = n,
                         !.sent = IF kind = "data" THEN Append(@, n) ELSE @]
  IN IF st.expired THEN Finish(read)
     ELSE IF kind \in {"empty", "meta", "bad"} THEN read
     ELSE IF kind = "scalar" THEN [read EXCEPT !.pc = "raised"]
     ELSE IF kind = "data"
       THEN YieldIfFull([read EXCEPT !.events = Append(@, n), !.parsed = Append(@, n)])
     ELSE YieldIfFull(read)

\* The generator is connected (lines 22-32) and waits for a line.
InitStream ==
  /\ Quiet /\ direct = Unused /\ paths = Unused
  /\ stream \in {[fn |-> "stream_events", pc |-> "waiting", batch_size |-> b,
                   events |-> <<>>, batches |-> <<>>, expired |-> FALSE,
                   lines |-> 0, sent |-> <<>>, parsed |-> <<>>] : b \in 1..MaxBatch}

\* More than `timeout` seconds have passed since start_time was read.
TimeoutPasses ==
  /\ stream.pc = "waiting" /\ ~stream.expired
  /\ stream' = [stream EXCEPT !.expired = TRUE]
  /\ UNCHANGED <<enrichment, direct, paths>>

\* iter_lines delivers a line and the body of the loop runs.
NextLine ==
  /\ stream.pc = "waiting" /\ stream.lines < MaxLines
  /\ \E kind \in LineKinds : stream' = Turn(stream, kind)
  /\ UNCHANGED <<enrichment, direct, paths>>

\* The server closes the stream: iter_lines is exhausted.
StreamEnds ==
  /\ stream.pc = "waiting"
  /\ stream' = Finish(stream)
  /\ UNCHANGED <<enrichment, direct, paths>>

NextStream ==
  \/ TimeoutPasses
  \/ NextLine
  \/ StreamEnds

SpecStream == InitStream /\ [][NextStream]_vars

\* ------------------------------------------------------------- main.py
\* ingest (lines 103-117 of stream_ingestion.py) writes one raw file per
\* batch stream_events yields: the raw files are named by the number of
\* their batch.
RawFiles == 1..Len(stream.batches)

\* What ingest returns: it has no return statement.
ingest_result == None

\* main.py calls ingest() with its defaults (lines 4-5).
InitMain ==
  /\ Quiet /\ direct = Unused
  /\ stream = [fn |-> "stream_events", pc |-> "waiting", batch_size |-> IngestBatchSize,
               events |-> <<>>, batches |-> <<>>, expired |-> FALSE,
               lines |-> 0, sent |-> <<>>, parsed |-> <<>>]
  /\ paths = [fn |-> "main", pc |-> "ingest", files |-> None, read |-> {},
              enriched |-> {}, raised |-> "none"]

\* The generator is exhausted and ingest returns: files = ingest().
IngestReturns ==
  /\ paths.fn = "main" /\ paths.pc = "ingest" /\ stream.pc = "done"
  /\ paths' = [paths EXCEPT !.pc = "enrich", !.files = ingest_result]
  /\ UNCHANGED <<enrichment, direct, stream>>

\* The generator raised: nothing in ingest or main handles it.
IngestRaises ==
  /\ paths.fn = "main" /\ paths.pc = "ingest" /\ stream.pc = "raised"
  /\ paths' = [paths EXCEPT !.pc = "ended", !.raised = "AttributeError"]
  /\ UNCHANGED <<enrichment, direct, stream>>

\* enrich(files) (main.py line 6): len(files) at line 385 raises TypeError
\* for None; a list of files is read and enriched file by file.
EnrichRaw ==
  /\ paths.fn = "main" /\ paths.pc = "enrich"
  /\ paths' = IF paths.files = None
                THEN [paths EXCEPT !.pc = "ended", !.raised = "TypeError"]
                ELSE [paths EXCEPT !.pc = "ended", !.read = Range(Get(paths.files)),
                                   !.enriched = Range(Get(paths.files))]
  /\ UNCHANGED <<enrichment, direct, stream>>

NextMain ==
  \/ TimeoutPasses
  \/ NextLine
  \/ StreamEnds
  \/ IngestReturns
  \/ IngestRaises
  \/ EnrichRaw

SpecMain == InitMain /\ [][NextMain]_vars

\* ---------------------------------------------------------------- claims
\* C1: an identifier of the store keeps its first_seen_ingestion through
\* every later step of every later call (enrich or generate_label_mappings);
\* of its fields only last_updated and the content fields may change.
C1_FirstSeenKept ==
  [][\A q \in DOMAIN store \cap DOMAIN store' :
       /\ "first_seen_ingestion" \in DOMAIN store[q]
       /\ \A f \in DOMAIN store[q] \ {"label", "description", "instance_of",
                                       "subclass_of", "last_updated"} :
            f \in DOMAIN store'[q] /\ store'[q][f] = store[q][f]]_vars

\* C1 witness: an entry that a later call's merge refreshed (its details were
\* stamped two or more clock readings after it was first seen).
C1_Witness ==
  \E q \in DOMAIN store : store[q].last_updated >= store[q].first_seen_ingestion + 2

\* C2: merge_entity_data, for any detail passed (also one that carries a
\* first_seen_ingestion of its own): an existing key takes every field of the
\* new detail except first_seen_ingestion, which stays that of the existing
\* record; a new key gets the ingestion_timestamp argument.
C2_MergeContract ==
  pc = "write" =>
    \A q \in DOMAIN passed :
      /\ q \in DOMAIN merged
      /\ IF q \in DOMAIN store
           THEN /\ \A f \in DOMAIN passed[q] \ {"first_seen_ingestion"} :
                     merged[q][f] = passed[q][f]
                /\ merged[q]["first_seen_ingestion"] = store[q]["first_seen_ingestion"]
           ELSE merged[q]["first_seen_ingestion"] = ingestion_timestamp

\* C3: no step of any call removes an identifier from the store.
C3_StoreOnlyGrows ==
  [][DOMAIN store \subseteq DOMAIN store']_vars

\* C3 witness: the store holds an entry that an earlier call wrote and a
\* later call, which wrote another entry, did not fetch again.
C3_Witness ==
  \E q1, q2 \in DOMAIN store :
    store[q1].first_seen_ingestion < store[q2].first_seen_ingestion
    /\ store[q1].last_updated < store[q2].first_seen_ingestion

\* C4: merge_entity_data leaves the new_details mapping it was passed, and
\* every detail in it, as they were before the call.
C4_NewDetailsUntouched ==
  pc = "write" => new_entities = passed

\* C5: within one call of enrich, enrich_article is invoked at most once for
\* every (title, wiki), also when the first attempt failed or found nothing.
C5_AtMostOneInvocation ==
  \A k \in Keys : invocations[k] <= 1

\* C5 witness: two records of a file carry the same key, the first attempt
\* made a request and ended in the placeholder, and the chain ran once.
C5_Witness ==
  /\ op = "enrich" /\ fetch_remote /\ Len(enriched_rows) = 2
  /\ enriched_rows[1].title = enriched_rows[2].title
  /\ enriched_rows[1].wiki = enriched_rows[2].wiki
  /\ enriched_rows[1].wikidata_id = None
  /\ invocations[<<enriched_rows[1].title, enriched_rows[1].wiki>>] = 1
  /\ netCalls >= 1

\* C6: no exception leaves enrich_article_cached: when enrich_article raised
\* for a record, the placeholder is stored under the record's key and
\* returned, and enrich is still in its loop over the records.
C6_NeverPropagates ==
  /\ outcome # "record_error"
  /\ lastExc # "none" =>
       LET row == enriched_rows[Len(enriched_rows)]
           key == <<row.title, row.wiki>>
       IN /\ op = "enrich" /\ pc = "rows"
          /\ key \in DOMAIN CACHE
          /\ CACHE[key].wikidata_id = None
          /\ CACHE[key].classification = [instance_of |-> None, subclass_of |-> None]
          /\ row.wikidata_id = None /\ row.instance_of = <<>> /\ row.subclass_of = <<>>

\* C6 witness: a record whose computation raised an exception that is no
\* RequestException was followed by another record.
C6_Witness ==
  /\ lastExc = "Exception" /\ Len(enriched_rows) = 2

\* C7: a result memoized during one call of enrich is not visible to a
\* later call: every entry the cache holds during a call was computed by
\* that call.
C7_CacheLivesOneRun ==
  op = "enrich" => \A k \in DOMAIN CACHE : invocations[k] >= 1

\* C8: a call of enrich with fetch_remote = False makes no request, builds
\* for every record a row with wikidata_id None and empty lists, and never
\* gets to the fetch, the merge or the store write.
C8_OfflineRun ==
  (op = "enrich" /\ ~fetch_remote) =>
    /\ netCalls = 0
    /\ pc \in {"files", "rows"}
    /\ \A k \in 1..Len(enriched_rows) :
         /\ enriched_rows[k].wikidata_id = None
         /\ enriched_rows[k].instance_of = <<>>
         /\ enriched_rows[k].subclass_of = <<>>

\* The batches a call makes for its unique_qids.
NumBatches == (Len(unique_qids) + batch_size - 1) \div batch_size

\* C9: in a call of get_wikidata_labels_batch a failed batch (its request
\* raised RequestException) does not end the call: its identifiers hold the
\* fallback detail, every batch is requested, and the identifiers a
\* successful batch answered hold the details built from the response.
C9_BatchIsolation ==
  pc \in {"fetch", "returned"} =>
    /\ \A j \in 1..Len(history) :
         /\ history[j].status = "failed" =>
              \A q \in Range(history[j].batch) :
                /\ q \in DOMAIN entities
                /\ entities[q].label = q
                /\ entities[q].description = None
                /\ entities[q].instance_of = None
                /\ entities[q].subclass_of = None
                /\ entities[q].last_updated = history[j].at
         /\ history[j].status = "ok" =>
              \A q \in history[j].answered :
                /\ q \in DOMAIN entities
                /\ entities[q] = Detail(q, history[j].body, history[j].at)
    /\ pc = "returned" => (Len(history) = NumBatches /\ new_entities = entities)

\* C9 witness: a call returned whose first batch failed and whose second
\* batch was answered with a labelled entity.
C9_Witness ==
  /\ op = "fetch" /\ pc = "returned" /\ Len(history) >= 2
  /\ history[1].status = "failed"
  /\ history[2].status = "ok"
  /\ \E q \in history[2].answered : new_entities[q].label = "label"

\* C10: the mapping get_wikidata_labels_batch returns has exactly the
\* non-null identifiers passed in as its keys, each with a last_updated.
C10_KeysAreTheRequested ==
  pc = "returned" =>
    /\ DOMAIN new_entities = {Get(q) : q \in {x \in Range(qids) : x # None}}
    /\ \A q \in DOMAIN new_entities : "last_updated" \in DOMAIN new_entities[q]

\* The distinct non-null identifiers of the qids argument.
Requested == {Get(q) : q \in {x \in Range(qids) : x # None}}

\* C11: get_wikidata_labels_batch partitions its input: the requests made
\* so far carry the first identifiers of unique_qids, each distinct non-null
\* identifier in at most one request and none twice in a request, no request
\* carries more than batch_size identifiers or none at all, each request is
\* made after the one before was answered or failed, and a call that returns
\* has sent every distinct non-null identifier and made ceil(n / batch_size)
\* requests (none for an empty input).
C11_Partition ==
  (op = "fetch" /\ pc \in {"fetch", "returned"}) =>
    /\ Range(unique_qids) = Requested
    /\ Len(unique_qids) = Cardinality(Requested)
    /\ netCalls = Len(history)
    /\ \A j \in 1..Len(history) :
         /\ Len(history[j].batch) \in 1..batch_size
         /\ Range(history[j].batch) \subseteq Requested
         /\ Cardinality(Range(history[j].batch)) = Len(history[j].batch)
         /\ \A k \in 1..Len(history) :
              j < k => /\ Range(history[j].batch) \cap Range(history[k].batch) = {}
                       /\ history[j].at < history[k].at
    /\ pc = "returned" =>
         /\ UNION {Range(history[j].batch) : j \in 1..Len(history)} = Requested
         /\ Len(history) * batch_size >= Cardinality(Requested)
         /\ (Len(history) - 1) * batch_size < Cardinality(Requested)
                \/ Len(history) = 0

\* C11 witness: a call whose input held a null or a duplicate returned
\* after two requests.
C11_Witness ==
  /\ op = "fetch" /\ pc = "returned"
  /\ Len(qids) > Cardinality(Requested)
  /\ Len(history) = 2

\* C12 as stated: every run of enrich that completes has fetched the
\* details once and ends by persisting the merged store.
C12_EveryRunFetchesAndPersists ==
  [][(op = "enrich" /\ pc # "idle" /\ outcome' = "complete") => pc = "write"]_vars

\* C12, amended: a run of enrich calls the batch fetch at most once, and
\* only when fetch_remote is set and identifiers were collected, after the
\* enriched output of every file is written, over the identifiers collected
\* from all files; the result is merged with the timestamp read at the start
\* of the run; the store changes only in the last step of the run, to that
\* merged mapping; a run with fetch_remote unset or without identifiers
\* completes without a fetch and without touching the store.
C12_OneFetchAfterFiles ==
  [][op = "enrich" =>
       /\ (pc' = "call" /\ pc # "call") =>
            /\ pc = "files" /\ enriched_rows = <<>>
            /\ fetch_remote /\ all_qids # {}
            /\ {Get(q) : q \in Range(qids')} = all_qids
            /\ all_qids \subseteq enriched_dir.qids
       /\ pc \in {"call", "fetch", "merge", "write"} =>
            pc' \in {"call", "fetch", "merge", "write", "idle"}
       /\ op' = "enrich" => ingestion_timestamp' = ingestion_timestamp
       /\ pc = "merge" => merged' = merge_entity_data(store, passed, ingestion_timestamp)
       /\ store' # store => pc = "write" /\ store' = merged /\ outcome' = "complete"
       /\ (pc # "idle" /\ outcome' = "complete") =>
            IF fetch_remote /\ all_qids # {}
              THEN pc = "write" /\ store' = merged
              ELSE pc = "files" /\ store' = store]_vars

\* C12 witness: a run that collected two identifiers is about to persist the
\* merged store.
C12_Witness ==
  /\ op = "enrich" /\ pc = "write"
  /\ Cardinality(all_qids) = 2
  /\ merged # store

\* The identifiers the records resolved in this run carry as their own
\* wikidata_id.
ResolvedInRun ==
  {Get(CACHE[k].wikidata_id) :
     k \in {x \in DOMAIN CACHE : invocations[x] > 0 /\ CACHE[x].wikidata_id # None}}

\* C13: when a run of enrich with fetch_remote set is about to persist the
\* store, every identifier an enriched record of the run refers to, its own
\* resolved wikidata_id as well as the members of instance_of and
\* subclass_of, is a key of the mapping that is persisted.
C13_StoreCoversRecords ==
  (op = "enrich" /\ pc = "write" /\ fetch_remote) =>
    (ResolvedInRun \cup all_qids) \subseteq DOMAIN merged

\* C14: get_wikidata_id never raises, whatever its title and wiki (null
\* included) and whatever the lookup answers; it returns an identifier or
\* None and makes at most one request.
C14_ResolverNeverRaises ==
  (direct.fn = "get_wikidata_id" /\ direct.done) =>
    /\ direct.raised = "none"
    /\ direct.value \in {None} \cup {Some(q) : q \in Qids}
    /\ direct.calls <= 1

\* C15: get_wikidata_classification(None) returns both fields null without
\* a request, and enrich_article makes no classification request when the
\* resolution failed: its one request is the lookup.
C15_NoRequestForNull ==
  /\ (direct.fn = "get_wikidata_classification" /\ direct.done /\ direct.qid = None) =>
       /\ direct.raised = "none" /\ direct.calls = 0
       /\ direct.value = NoClassification
  /\ (direct.fn = "enrich_article" /\ direct.done
        /\ get_wikidata_id(direct.lookup).value = None) =>
       /\ direct.calls = 1
       /\ direct.value.classification = NoClassification

\* C15 witness: enrich_article returned after a lookup that found no
\* identifier, although the classification service would have answered.
C15_Witness ==
  /\ direct.fn = "enrich_article" /\ direct.done /\ direct.raised = "none"
  /\ direct.lookup.status = "ok" /\ direct.lookup.item = None
  /\ direct.claims.status = "ok" /\ direct.claims.instance_of # None

\* C19 as stated, its last part: the host of every request has no empty
\* label.
C19_LabelNeverEmpty ==
  (direct.fn = "get_wikidata_id" /\ direct.done /\ direct.calls = 1) =>
    \A k \in 1..Len(direct.host) : direct.host[k] # <<>>

\* C19, amended: after the trailing "wiki" is stripped, a remainder that
\* ends with a known project name is sent to that project's host
\* (www.wikidata.org for wikidata, under commons.wikimedia.org for commons,
\* under <project>.org otherwise) with the part before the name as the
\* language label, which is left out when that part is empty (www for
\* wikipedia); any other remainder is the language label of wikipedia.org.
\* enwiki gives en.wikipedia.org, dewikivoyage de.wikivoyage.org and
\* wikidatawiki www.wikidata.org; the host has an empty label exactly when
\* the remainder is empty.
C19_HostDerivation ==
  (direct.fn = "get_wikidata_id" /\ direct.done /\ direct.calls = 1) =>
    LET wiki == Get(direct.wiki)
        rest == Prefix(wiki)
        h    == direct.host
        org  == <<"org">>
    IN /\ wiki = <<"en", "wiki">> => h = <<<<"en">>, <<"wikipedia">>, org>>
       /\ wiki = <<"de", "wikivoyage">> => h = <<<<"de">>, <<"wikivoyage">>, org>>
       /\ wiki = <<"wikidata", "wiki">> => h = <<<<"www">>, <<"wikidata">>, org>>
       /\ IF rest # <<>> /\ rest[Len(rest)] \in Range(projects)
            THEN LET proj == rest[Len(rest)]
                     lang == DropLast(rest)
                 IN IF proj = "wikidata" THEN h = <<<<"www">>, <<"wikidata">>, org>>
                    ELSE /\ SubSeq(h, Len(h) - 1, Len(h)) =
                              IF proj = "commons" THEN <<<<"wikimedia">>, org>>
                              ELSE <<<<proj>>, org>>
                         /\ proj = "commons" => h[Len(h) - 2] = <<"commons">>
                         /\ Len(h) = (IF proj = "commons" THEN 3 ELSE 2)
                                     + (IF lang # <<>> \/ proj = "wikipedia" THEN 1 ELSE 0)
                         /\ lang # <<>> => h[1] = lang
                         /\ (lang = <<>> /\ proj = "wikipedia") => h[1] = <<"www">>
            ELSE h = <<rest, <<"wikipedia">>, org>>
       /\ (\E k \in 1..Len(h) : h[k] = <<>>) <=> rest = <<>>

\* C19 witness: the request for dewikivoyage went to de.wikivoyage.org.
C19_Witness ==
  /\ direct.fn = "get_wikidata_id" /\ direct.done /\ direct.calls = 1
  /\ direct.wiki = Some(<<"de", "wikivoyage">>)
  /\ direct.host = <<<<"de">>, <<"wikivoyage">>, <<"org">>>>

\* C17: no failure of a batch aborts the call: once the fetch has begun,
\* whatever happens to a batch, the call goes on to the next batch and then
\* returns its mapping to the caller, which merges.
C17_BatchFailureNeverAborts ==
  [][pc = "fetch" => pc' \in {"fetch", "merge", "returned"}]_vars

\* C18: a run of enrich that aborts because an input file cannot be read or
\* an enriched file cannot be written leaves the store and the enriched
\* files written before as they are; the store is unchanged by every step
\* of a run but its last, which writes the merged mapping computed before,
\* after every file was processed; enriched files are only ever added.
C18_AbortLeavesStore ==
  [][op = "enrich" =>
       /\ outcome' = "file_error" => store' = store /\ enriched_dir' = enriched_dir
       /\ pc # "write" => store' = store
       /\ store' # store =>
            /\ store' = merged /\ enriched_rows = <<>>
            /\ merged = merge_entity_data(store, passed, ingestion_timestamp)
       /\ enriched_dir.qids \subseteq enriched_dir'.qids
       /\ enriched_dir.files => enriched_dir'.files]_vars

\* C18 witness: a run was aborted by a file error with entries in the store
\* and enriched files on disk.
C18_Witness ==
  /\ outcome = "file_error" /\ pc = "idle"
  /\ store # EmptyDict
  /\ enriched_dir.files /\ enriched_dir.qids # {}

\* The inputs of the run all lie in one directory, and it is not named
\* "enriched".
OneRawDir ==
  /\ \A a, b \in Range(paths.files) : a.dir = b.dir /\ a.grand = b.grand
  /\ \A a \in Range(paths.files) : a.dir # "enriched"

\* C16 as stated: whatever the input paths, a finished run has written one
\* enriched file per input, at a path that is no input path of the run,
\* distinct inputs at distinct paths.
C16_OneOutputPerInput ==
  (paths.fn = "enrich" /\ paths.k > Len(paths.files)) =>
    /\ Cardinality(paths.written) = Len(paths.files)
    /\ paths.written \cap Range(paths.files) = {}
    /\ \A a, b \in 1..Len(paths.files) : paths.outs[a] = paths.outs[b] => a = b

\* C16, amended: when the input paths all lie in one directory that is not
\* named "enriched", every output written so far is the enriched file of
\* its input in the sibling directory "enriched", no output path is an input
\* path of the run, distinct inputs have distinct outputs, and a finished
\* run has written one file per input.
C16_OutputsBesideRawDir ==
  (paths.fn = "enrich" /\ OneRawDir) =>
    /\ Len(paths.outs) = paths.k - 1
    /\ \A a \in 1..Len(paths.outs) :
         /\ paths.outs[a].dir = "enriched"
         /\ paths.outs[a].grand = paths.files[a].grand
         /\ paths.outs[a] \in paths.written
    /\ paths.written \cap Range(paths.files) = {}
    /\ \A a, b \in 1..Len(paths.outs) : paths.outs[a] = paths.outs[b] => a = b
    /\ Cardinality(paths.written) = Len(paths.outs)
    /\ paths.k > Len(paths.files) => Cardinality(paths.written) = Len(paths.files)

\* C16 witness: a run over two files of data/raw, one of them without the
\* extension, has written both outputs.
C16_Witness ==
  /\ paths.fn = "enrich" /\ OneRawDir
  /\ Len(paths.files) = 2 /\ paths.k = 3
  /\ paths.files[1].dir = "raw"
  /\ paths.files[1].name = <<"a", ".parquet">> /\ paths.files[2].name = <<"a">>
  /\ Cardinality(paths.written) = 2

\* C20: once a batch of batch_size events has been yielded the generator
\* has stopped: it reads no further line of the stream.
C20_StopsOnFullBatch ==
  [][(stream.fn = "stream_events"
        /\ \E j \in 1..Len(stream.batches) : Len(stream.batches[j]) >= stream.batch_size)
       => stream'.lines = stream.lines]_vars

\* C21: in every entry of the persisted store first_seen_ingestion is not
\* later than last_updated.
C21_FirstSeenNotAfterUpdate ==
  \A q \in DOMAIN store :
    store[q].first_seen_ingestion <= store[q].last_updated

\* C22: when the main program has ended, every raw file ingest wrote
\* during the run was read by enrich and has an enriched output.
C22_RawFilesGetEnriched ==
  (paths.fn = "main" /\ paths.pc = "ended") =>
    \A f \in RawFiles : f \in paths.read /\ f \in paths.enriched

\* The events of a sequence of batches, in order.
RECURSIVE Flatten(_)
Flatten(bs) == IF bs = <<>> THEN <<>> ELSE Head(bs) \o Flatten(Tail(bs))

\* C23: stream_events loses and duplicates nothing: every yielded batch has
\* between one and batch_size events, every batch but the last exactly
\* batch_size, and when the generator has stopped the yielded batches hold,
\* in order, exactly the events of the data lines it parsed.
C23_NothingLost ==
  stream.fn = "stream_events" =>
    /\ \A j \in 1..Len(stream.batches) :
         /\ Len(stream.batches[j]) \in 1..stream.batch_size
         /\ j < Len(stream.batches) => Len(stream.batches[j]) = stream.batch_size
    /\ stream.pc # "waiting" => Flatten(stream.batches) = stream.parsed

====
